---- MODULE Spec2Model ----
(***************************************************************************)
(* dohdns: DNS over HTTPS request translator (HandleRequest, GetRequest,   *)
(* PostRequest) and resolver proxy (NewProxy, ProxyBackend.Query).         *)
(*                                                                         *)
(* Byte strings are sequences of integers 0..255.  The text of a 'dns'     *)
(* query parameter is a sequence of symbols: 0..63 are the positions of    *)
(* the base64url alphabet "A-Za-z0-9-_", the remaining symbols are named   *)
(* below.  Errors are their message text, "" is the nil error.             *)
(***************************************************************************)
EXTENDS Integers, Sequences, FiniteSets, TLC

VARIABLES pb, perr, handler, r, world, w, q, nread, herr, logged, panicked

vars == <<pb, perr, handler, r, world, w, q, nread, herr, logged, panicked>>

\* ---------------------------------------------------------------- bounds
\* Longest enumerated DNS query (bytes); every shorter length is included.
MaxLen == 2

\* ------------------------------------------------------ program constants
mime == "application/dns-udpwireformat"

MaxBody == 8192

TextPlain == "text/plain; charset=utf-8"

ErrBodyTooLarge == "http: request body too large"

MethodGet == "GET"

MethodPost == "POST"

StatusOK == 200

StatusBadRequest == 400

StatusMethodNotAllowed == 405

StatusRequestEntityTooLarge == 413

StatusUnsupportedMediaType == 415

StatusUnprocessableEntity == 422

StatusInternalServerError == 500

StatusServiceUnavailable == 503

\* http.StatusText
StatusText(code) ==
    CASE code = 200 -> "OK"
      [] code = 400 -> "Bad Request"
      [] code = 405 -> "Method Not Allowed"
      [] code = 413 -> "Request Entity Too Large"
      [] code = 415 -> "Unsupported Media Type"
      [] code = 422 -> "Unprocessable Entity"
      [] code = 500 -> "Internal Server Error"
      [] code = 503 -> "Service Unavailable"
      [] OTHER -> ""

\* ------------------------------------------------------------- base64url
\* Symbols of a parameter text that are not in the base64url alphabet.
PadChar == 64

NewLine == 65

Bang == 66

Alphabet == 0..63

\* Symbol i of s, and 0 past its end.
At(s, i) == IF i <= Len(s) THEN s[i] ELSE 0

\* The 24-bit value of the four symbols of s that follow position k.
Quantum(s, k) ==
    At(s, k + 1) * 262144 + At(s, k + 2) * 4096 + At(s, k + 3) * 64 + At(s, k + 4)

\* Byte number n (0, 1 or 2) of the 24-bit value val, most significant first.
ByteOf(val, n) ==
    IF n = 0 THEN val \div 65536
    ELSE IF n = 1 THEN (val \div 256) % 256
    ELSE val % 256

\* Decoding of the symbols left after '\r' and '\n' were dropped: each four
\* symbols give three bytes, a rest of two gives one byte, a rest of three
\* gives two bytes; a rest of one, or a symbol outside the alphabet, is
\* corrupt input.  Trailing bits of a rest are not checked.
DecodeSymbols(s) ==
    IF (\E i \in 1..Len(s) : s[i] \notin Alphabet) \/ Len(s) % 4 = 1
    THEN [err |-> "illegal base64 data", data |-> <<>>]
    ELSE [err |-> "",
          data |-> [j \in 1..((Len(s) * 3) \div 4) |->
                       ByteOf(Quantum(s, ((j - 1) \div 3) * 4), (j - 1) % 3)]]

IsNewLine(c) == c = NewLine

NotNewLine(c) == ~IsNewLine(c)

\* A decoder of the padded encoding, which refuses a text with a rest.
DecodeStringPadded(s) ==
    IF Len(SelectSeq(s, NotNewLine)) % 4 # 0
    THEN [err |-> "illegal base64 data", data |-> <<>>]
    ELSE DecodeSymbols(SelectSeq(s, NotNewLine))

\* base64.RawURLEncoding.DecodeString
DecodeString(s) == DecodeSymbols(SelectSeq(s, NotNewLine))

\* The 24-bit value of the three bytes of b that follow position k.
Triple(b, k) == At(b, k + 1) * 65536 + At(b, k + 2) * 256 + At(b, k + 3)

\* Symbol number n (0 to 3) of the 24-bit value val.
SymbolOf(val, n) ==
    IF n = 0 THEN val \div 262144
    ELSE IF n = 1 THEN (val \div 4096) % 64
    ELSE IF n = 2 THEN (val \div 64) % 64
    ELSE val % 64

\* The unpadded base64url text of a byte string, as a client produces it:
\* each three bytes give four symbols, a rest of one byte gives two symbols
\* and a rest of two bytes gives three.
EncodeToString(b) ==
    [i \in 1..((Len(b) * 4 + 2) \div 3) |->
        SymbolOf(Triple(b, ((i - 1) \div 4) * 3), (i - 1) % 4)]

\* ---------------------------------------------------------- response sink
\* httptest.ResponseRecorder / http.ResponseWriter: a header map, the status
\* and headers frozen by the first WriteHeader, the body, and the writes made.
NewRecorder ==
    [header |-> "", code |-> 0, sentType |-> "", text |-> "", bytes |-> <<>>,
     writes |-> <<>>]

HeaderSet(rw, value) == [rw EXCEPT !.header = value]

WriteHeader(rw, code) ==
    IF rw.code # 0 THEN rw
    ELSE [rw EXCEPT !.code = code, !.sentType = rw.header]

\* ResponseWriter.Write
Write(rw, data) ==
    LET h == WriteHeader(rw, StatusOK)
    IN [h EXCEPT !.bytes = h.bytes \o data, !.writes = Append(h.writes, "body")]

\* http.Error
Error(rw, msg, code) ==
    LET h == WriteHeader(HeaderSet(rw, TextPlain), code)
    IN [h EXCEPT !.text = h.text \o msg \o "\n", !.writes = Append(h.writes, "error")]

\* ------------------------------------------------------- resolver proxy
\* A []string argument: the nil slice, or a slice with the given elements.
NilSlice == [nil |-> TRUE, elems |-> <<>>]

Slice(elems) == [nil |-> FALSE, elems |-> elems]

DefaultResolvConf == "/etc/resolv.conf"

DefaultPort == "53"

DefaultClient == "dns.Client"

NoProxy == [set |-> FALSE, Servers |-> <<>>, Port |-> "", Exchanger |-> ""]

\* dns.ClientConfigFromFile: the default file holds the servers fileServers;
\* any other path of the model does not exist.
ClientConfigFromFile(path, fileServers) ==
    IF path = DefaultResolvConf
    THEN [err |-> "", Servers |-> fileServers]
    ELSE [err |-> "open " \o path \o ": no such file or directory", Servers |-> <<>>]

\* NewProxy: the pair (proxy, error) it returns.
NewProxyResult(servers, port, resolvconf, exchanger, fileServers) ==
    LET path == IF resolvconf = "" THEN DefaultResolvConf ELSE resolvconf
        config == ClientConfigFromFile(path, fileServers)
    IN IF servers.nil /\ config.err # ""
       THEN [pb |-> NoProxy, err |-> config.err]
       ELSE [pb |-> [set |-> TRUE,
                     Servers |-> IF servers.nil THEN config.Servers ELSE servers.elems,
                     Port |-> IF port = "" THEN DefaultPort ELSE port,
                     Exchanger |-> IF exchanger = "" THEN DefaultClient ELSE exchanger],
             err |-> ""]

\* net.JoinHostPort
JoinHostPort(host, port) == host \o ":" \o port

\* The wire format of a reply message that packs.
PackedReply == << 0, 0, 129, 128 >>

\* What the collaborators of one Query call do: whether the codec unpacks
\* the input, and what Exchange returns: an error, a message that packs
\* ("answer") or a message that does not pack ("broken").
ExchangeOutcomes == {"error", "answer", "broken"}

NoCall ==
    [calls |-> 0, data |-> <<>>, exchanged |-> <<>>, packs |-> 0,
     rdata |-> <<>>, status |-> 0, err |-> "", returned |-> FALSE]

\* ProxyBackend.Query.  The nil byte slice is the empty sequence.  Indexing
\* an empty Servers slice panics, and then the call does not return.
Query(db, qdata, env) ==
    LET c == [NoCall EXCEPT !.calls = 1, !.data = qdata]
    IN IF ~env.unpack
       THEN [c EXCEPT !.status = StatusBadRequest, !.err = "dns: unpack failed",
                      !.returned = TRUE]
       ELSE IF Len(db.Servers) = 0
       THEN c
       ELSE LET x == [c EXCEPT !.exchanged = << JoinHostPort(db.Servers[1], db.Port) >>]
            IN IF env.exchange = "error"
               THEN [x EXCEPT !.status = StatusInternalServerError,
                              !.err = "read udp: i/o timeout", !.returned = TRUE]
               ELSE IF env.exchange = "broken"
               THEN [x EXCEPT !.packs = 1, !.status = StatusInternalServerError,
                              !.err = "dns: bad rcode", !.returned = TRUE]
               ELSE [x EXCEPT !.packs = 1, !.rdata = PackedReply,
                              !.status = StatusOK, !.returned = TRUE]

\* Database.Query: the resolver proxy, or any other implementation, which
\* returns the triple env.other.
DatabaseQuery(db, qdata, env) ==
    IF db.kind = "proxy" THEN Query(db, qdata, env)
    ELSE [NoCall EXCEPT !.calls = 1, !.data = qdata, !.rdata = env.other.rdata,
                        !.status = env.other.status, !.err = env.other.err,
                        !.returned = TRUE]

\* ----------------------------------------------------- request translator
\* The outcome of serving one request: the response sink, the backend call,
\* the error returned to the dispatcher, whether the handler was unwound by
\* a panic, and how often the request body was read.
Outcome(rw, c, err, panic, reads) ==
    [w |-> rw, q |-> c, err |-> err, panic |-> panic, reads |-> reads]

Reject(rw, code, msg, reads) ==
    Outcome(Error(rw, StatusText(code), code), NoCall, msg, FALSE, reads)

\* A backend whose failure is answered with the text of its error.
BackendErrorText(rw, db, qdata, e, reads) ==
    LET c == DatabaseQuery(db, qdata, e)
    IN IF ~c.returned THEN Outcome(rw, c, "", TRUE, reads)
       ELSE IF c.err # ""
       THEN Outcome(Error(rw, c.err, c.status), c, c.err, FALSE, reads)
       ELSE Outcome(Write(rw, c.rdata), c, "", FALSE, reads)

\* A backend that is asked a second time when its first answer is a failure.
BackendRetry(rw, db, qdata, e, reads) ==
    LET c1 == DatabaseQuery(db, qdata, e)
        c == IF c1.returned /\ c1.err # ""
             THEN [DatabaseQuery(db, qdata, e) EXCEPT !.calls = 2]
             ELSE c1
    IN IF ~c.returned THEN Outcome(rw, c, "", TRUE, reads)
       ELSE IF c.err # ""
       THEN Outcome(Error(rw, StatusText(c.status), c.status), c, c.err, FALSE, reads)
       ELSE Outcome(Write(rw, c.rdata), c, "", FALSE, reads)

\* The common tail of both validators: hand the query to the backend and
\* write its reply, or its failure status.
Backend(rw, db, qdata, e, reads) ==
    LET c == DatabaseQuery(db, qdata, e)
    IN IF ~c.returned THEN Outcome(rw, c, "", TRUE, reads)
       ELSE IF c.err # ""
       THEN Outcome(Error(rw, StatusText(c.status), c.status), c, c.err, FALSE, reads)
       ELSE Outcome(Write(rw, c.rdata), c, "", FALSE, reads)

\* The checks of GetRequest.Handle on the 'dns' parameter.
GetValidate(rw, req, db, e) ==
    LET dns == req.dns
    IN IF ~dns.ok
       THEN Reject(rw, StatusBadRequest, "GET: no 'dns' parameter in request", 0)
       ELSE IF Len(dns.values) # 1
       THEN Reject(rw, StatusUnprocessableEntity,
                   "GET: only 1 'dns' parameter is allowed", 0)
       ELSE IF Len(dns.values[1]) = 0
       THEN Reject(rw, StatusBadRequest, "GET: 'dns' parameter is empty", 0)
       ELSE LET d == DecodeString(dns.values[1])
            IN IF d.err # ""
               THEN Reject(rw, StatusBadRequest, d.err, 0)
               ELSE Backend(rw, db, d.data, e, 0)

\* A GET validator that leaves the response Content-Type unset.
GetRequestHandleNoType(req, db, e) == GetValidate(NewRecorder, req, db, e)

\* GetRequest.Handle
GetRequestHandle(req, db, e) == GetValidate(HeaderSet(NewRecorder, mime), req, db, e)

\* A reader that refuses a body of exactly limit bytes.
ReadAllOffByOne(body, limit) ==
    IF Len(body.data) >= limit
    THEN [data |-> SubSeq(body.data, 1, limit), err |-> ErrBodyTooLarge]
    ELSE [data |-> body.data, err |-> body.err]

\* ioutil.ReadAll of http.MaxBytesReader(w, body, limit).  A body stream is
\* the bytes it delivers and the error that ends it ("" is io.EOF).
ReadAll(body, limit) ==
    IF Len(body.data) > limit
    THEN [data |-> SubSeq(body.data, 1, limit), err |-> ErrBodyTooLarge]
    ELSE [data |-> body.data, err |-> body.err]

\* The body steps of PostRequest.Handle: read under the cap, refuse a read
\* failure and an empty body, hand the body to the backend.
PostBody(rw, req, db, e) ==
    LET b == ReadAll(req.Body, MaxBody)
    IN IF b.err # ""
       THEN IF b.err = ErrBodyTooLarge
            THEN Reject(rw, StatusRequestEntityTooLarge, b.err, 1)
            ELSE Reject(rw, StatusInternalServerError, b.err, 1)
       ELSE IF Len(b.data) = 0
       THEN Reject(rw, StatusBadRequest, "POST: empty body in request", 1)
       ELSE Backend(rw, db, b.data, e, 1)

\* A POST validator that looks at the Content-Type before the parameter.
PostRequestHandleTypeFirst(req, db, e) ==
    LET rw == HeaderSet(NewRecorder, mime)
    IN IF req.ContentType # mime
       THEN Reject(rw, StatusUnsupportedMediaType,
                   "POST: Content-Type must be application/dns-udpwireformat", 0)
       ELSE IF req.dns.ok
       THEN Reject(rw, StatusBadRequest, "POST: 'dns' parameter not allowed", 0)
       ELSE PostBody(rw, req, db, e)

\* PostRequest.Handle
PostRequestHandle(req, db, e) ==
    LET rw == HeaderSet(NewRecorder, mime)
    IN IF req.dns.ok
       THEN Reject(rw, StatusBadRequest, "POST: 'dns' parameter not allowed", 0)
       ELSE IF req.ContentType # mime
       THEN Reject(rw, StatusUnsupportedMediaType,
                   "POST: Content-Type must be application/dns-udpwireformat", 0)
       ELSE PostBody(rw, req, db, e)

\* A default case that answers like a validator that found no parameter.
MethodNotAllowedAsBadRequest ==
    Reject(HeaderSet(NewRecorder, mime), StatusBadRequest,
           "GET: no 'dns' parameter in request", 0)

\* The default case of the method switch of HandleRequest.
MethodNotAllowed ==
    Reject(NewRecorder, StatusMethodNotAllowed,
           "HandleRequest: only GET and POST methods are supported", 0)

\* The line the handler logs after the request: none without a logger, and
\* none when the backend panicked, since the handler is then unwound.
LogLine(log, res) ==
    IF ~log \/ res.panic THEN "none"
    ELSE IF res.err # "" THEN "error"
    ELSE "successful"

\* ------------------------------------------------------------ the inputs
ByteVals == {0, 255}

\* The www.example.com (A) query of the tests and its 'dns' parameter text.
WwwExampleCom ==
    << 0, 0, 1, 0, 0, 1, 0, 0, 0, 0, 0, 0, 3, 119, 119, 119, 7, 101, 120, 97,
       109, 112, 108, 101, 3, 99, 111, 109, 0, 0, 1, 0, 1 >>

WwwExampleComText ==
    << 0, 0, 0, 1, 0, 0, 0, 1, 0, 0, 0, 0, 0, 0, 0, 0, 0, 55, 29, 55, 29, 48,
       29, 37, 30, 6, 5, 45, 28, 6, 49, 37, 0, 54, 13, 47, 27, 16, 0, 0, 0, 16,
       0, 1 >>

\* The parameter text "invalid" of the tests.
InvalidText == << 34, 39, 47, 26, 37, 34, 29 >>

Queries == UNION { [1..n -> ByteVals] : n \in 0..MaxLen } \cup {WwwExampleCom}

DnsTexts ==
    { EncodeToString(b) : b \in Queries }
    \cup { WwwExampleComText, InvalidText, <<0>>, <<NewLine>>, <<Bang>>,
           <<0, NewLine, 0>>, WwwExampleComText \o <<NewLine>>, <<0, 0, PadChar, PadChar>>, <<0, 0, 0, 0, 0>> }

NoParam == [ok |-> FALSE, values |-> <<>>]

Param(values) == [ok |-> TRUE, values |-> values]

DnsParams ==
    {NoParam} \cup { Param(<<t>>) : t \in DnsTexts }
    \cup { Param(<<WwwExampleComText, WwwExampleComText>>), Param(<<<<>>, <<>>>>),
           Param(<<<<Bang>>, WwwExampleComText, <<0>>>>) }

Zeros(n) == [i \in 1..n |-> 0]

EOF == ""

Stream(data, err) == [data |-> data, err |-> err]

NoBody == Stream(<<>>, EOF)

ReadErrors == {EOF, "test error", ErrBodyTooLarge}

Bodies ==
    { Stream(b, e) : b \in Queries \cup {Zeros(MaxBody), Zeros(MaxBody + 1)},
                     e \in ReadErrors }

Request(method, dns, ctype, body) ==
    [Method |-> method, dns |-> dns, ContentType |-> ctype, Body |-> body]

NoRequest == Request("", NoParam, "", NoBody)

GetRequests ==
    { Request(MethodGet, d, "", NoBody) : d \in DnsParams }
    \cup { Request(MethodGet, d, c, b) :
             d \in {NoParam, Param(<<<<0>>>>), Param(<<WwwExampleComText>>)},
             c \in {mime, "text/plain"},
             b \in {Stream(WwwExampleCom, EOF), Stream(<<>>, "test error")} }

PostRequests ==
    { Request(MethodPost, NoParam, mime, b) : b \in Bodies }
    \cup { Request(MethodPost, d, c, b) :
             d \in {NoParam, Param(<<<<>>>>), Param(<<WwwExampleComText>>)},
             c \in {mime, "", "text/plain"},
             b \in {NoBody, Stream(WwwExampleCom, EOF), Stream(<<>>, "test error"),
                    Stream(Zeros(MaxBody + 1), EOF)} }

OtherRequests ==
    { Request(m, d, c, Stream(b, EOF)) :
        m \in {"PUT", "HEAD"}, d \in {NoParam, Param(<<WwwExampleComText>>)},
        c \in {mime, ""}, b \in {<<>>, WwwExampleCom} }

NoOther == [rdata |-> <<>>, status |-> 0, err |-> ""]

OtherResults ==
    [rdata : {<<>>, PackedReply}, status : {StatusOK, StatusServiceUnavailable},
     err : {"", "backend failed"}]

NoEnv == [unpack |-> FALSE, exchange |-> "unused", other |-> NoOther]

\* The behaviours of the collaborators that a Query call of db can meet.
Envs(db) ==
    IF db.kind = "proxy"
    THEN {NoEnv} \cup { [unpack |-> TRUE, exchange |-> x, other |-> NoOther] :
                          x \in ExchangeOutcomes }
    ELSE { [unpack |-> FALSE, exchange |-> "unused", other |-> o] : o \in OtherResults }

\* The arguments of NewProxy: servers, port, resolvconf, exchanger.
NewProxyArgs ==
    { <<NilSlice, "", "", "">>,
      <<NilSlice, "", "/nonexistent-resolv.conf", "">>,
      <<NilSlice, "53535", "", "brokenExchangeClient">>,
      <<Slice(<<>>), "", "", "">>,
      <<Slice(<<>>), "53535", "/nonexistent-resolv.conf", "">>,
      <<Slice(<<"127.0.0.1">>), "53535", "", "">>,
      <<Slice(<<"127.0.0.1">>), "53535", "", "brokenExchangeClient">>,
      <<Slice(<<"127.0.0.1">>), "", "/nonexistent-resolv.conf", "">>,
      <<Slice(<<"127.0.0.1", "127.0.0.2">>), "", "", "">>,
      <<Slice(<<"127.0.0.1", "127.0.0.2">>), "53535", "", "brokenExchangeClient">> }

\* The server lists that the default resolver configuration file may hold.
FileServers == { <<>>, <<"192.0.2.53">> }

NoDatabase == [kind |-> "none", Servers |-> <<>>, Port |-> "", Exchanger |-> ""]

OtherDatabase == [kind |-> "other", Servers |-> <<>>, Port |-> "", Exchanger |-> ""]

ProxyDatabase(p) ==
    [kind |-> "proxy", Servers |-> p.Servers, Port |-> p.Port, Exchanger |-> p.Exchanger]

NoHandler == [bound |-> FALSE, DB |-> NoDatabase, log |-> FALSE]

\* ------------------------------------------------------ the state machine
Init ==
    /\ pb = NoProxy
    /\ perr = ""
    /\ handler = NoHandler
    /\ r = NoRequest
    /\ world = NoEnv
    /\ w = NewRecorder
    /\ q = NoCall
    /\ nread = 0
    /\ herr = ""
    /\ logged = "none"
    /\ panicked = FALSE

\* NewProxy, called at startup, before the handler is built.
NewProxy ==
    /\ ~pb.set
    /\ ~handler.bound
    /\ \E a \in NewProxyArgs, fileServers \in FileServers :
          LET res == NewProxyResult(a[1], a[2], a[3], a[4], fileServers)
          IN /\ pb' = res.pb
             /\ perr' = res.err
    /\ UNCHANGED <<handler, r, world, w, q, nread, herr, logged, panicked>>

\* HandleRequest: builds the handler over the proxy, or over another
\* Database when no proxy was built, with or without a logger.
HandleRequest ==
    /\ ~handler.bound
    /\ \E log \in BOOLEAN :
          handler' = [bound |-> TRUE,
                      DB |-> IF pb.set THEN ProxyDatabase(pb) ELSE OtherDatabase,
                      log |-> log]
    /\ UNCHANGED <<pb, perr, r, world, w, q, nread, herr, logged, panicked>>

\* The handler has served req with the result res, the collaborators
\* behaving as e.
Served(req, e, res) ==
    /\ r' = req
    /\ world' = IF res.q.calls = 0 THEN NoEnv ELSE e
    /\ w' = res.w
    /\ q' = res.q
    /\ nread' = res.reads
    /\ herr' = res.err
    /\ panicked' = res.panic
    /\ logged' = LogLine(handler.log, res)
    /\ UNCHANGED <<pb, perr, handler>>

\* The handler serves a GET request.
ServeGet ==
    /\ handler.bound
    /\ \E req \in GetRequests :
          \E e \in IF GetRequestHandle(req, handler.DB, NoEnv).q.calls = 0
                   THEN {NoEnv} ELSE Envs(handler.DB) :
             Served(req, e, GetRequestHandle(req, handler.DB, e))

\* The handler serves a POST request.
ServePost ==
    /\ handler.bound
    /\ \E req \in PostRequests :
          \E e \in IF PostRequestHandle(req, handler.DB, NoEnv).q.calls = 0
                   THEN {NoEnv} ELSE Envs(handler.DB) :
             Served(req, e, PostRequestHandle(req, handler.DB, e))

\* The handler serves a request of any other method.
ServeOther ==
    /\ handler.bound
    /\ \E req \in OtherRequests : Served(req, NoEnv, MethodNotAllowed)

Next == NewProxy \/ HandleRequest \/ ServeGet \/ ServePost \/ ServeOther

Spec == Init /\ [][Next]_vars

\* A request has been served.
ServedAny == r.Method # ""

\* ------------------------------------------------------------- the claims
\* C1 as stated: every response that is written carries the Content-Type
\* application/dns-udpwireformat.
C1_AlwaysWireType == w.code # 0 => w.sentType = mime

\* C1 as amended: a response whose body is the backend's reply carries the
\* Content-Type application/dns-udpwireformat, and every error response
\* carries text/plain; charset=utf-8.
C1_TypeByOutcome ==
    w.code # 0 =>
        /\ w.writes = <<"body">> => w.sentType = mime
        /\ w.writes = <<"error">> => w.sentType = TextPlain

\* A GET or POST request answered with the backend's reply.
C1_Witness ==
    /\ r.Method \in {MethodGet, MethodPost}
    /\ w.writes = <<"body">>
    /\ w.code = StatusOK
    /\ w.sentType = mime

\* C2 as stated: when the handling of a request has ended the response was
\* written exactly once: one body write or one error write.
C2_WrittenOnce == ServedAny => Len(w.writes) = 1

\* A text of the base64url alphabet whose length an unpadded encoding can have.
ValidBase64url(t) ==
    /\ \A i \in 1..Len(t) : t[i] \in Alphabet
    /\ Len(t) % 4 # 1

\* The response reflects what the backend call c returned.
Reflects(c) ==
    c.returned =>
        IF c.err # "" THEN w.code = c.status /\ w.writes = <<"error">>
        ELSE w.code = StatusOK /\ w.bytes = c.rdata /\ w.writes = <<"body">>

\* C3 as stated: the status of a GET response is decided by the 'dns'
\* parameter: absent 400, more than one value 422, one empty value 400, one
\* value that is not valid unpadded base64url 400, otherwise the decoded
\* bytes go to the backend; the body and Content-Type of the request play
\* no part.
C3_GetByParameter ==
    r.Method = MethodGet =>
        LET v == r.dns.values
            bare == GetRequestHandle(Request(MethodGet, r.dns, "", NoBody),
                                     handler.DB, world)
        IN /\ ~r.dns.ok => w.code = StatusBadRequest /\ q.calls = 0
           /\ r.dns.ok /\ Len(v) > 1 =>
                 w.code = StatusUnprocessableEntity /\ q.calls = 0
           /\ r.dns.ok /\ Len(v) = 1 =>
                 IF Len(v[1]) = 0 \/ ~ValidBase64url(v[1])
                 THEN w.code = StatusBadRequest /\ q.calls = 0
                 ELSE /\ q.calls = 1
                      /\ q.data = DecodeString(v[1]).data
                      /\ Reflects(q)
           /\ w = bare.w /\ q = bare.q /\ nread = 0

\* C4 as stated: a POST request is checked in this order, and the first
\* check that fails decides: 'dns' parameter present 400; Content-Type not
\* the wire-format type 415 without reading the body; body over the cap
\* 413; any other read failure 500; empty body 400; otherwise the body
\* goes unmodified to the backend.
C4_PostInOrder ==
    r.Method = MethodPost =>
        IF r.dns.ok THEN w.code = StatusBadRequest /\ nread = 0 /\ q.calls = 0
        ELSE IF r.ContentType # mime
        THEN w.code = StatusUnsupportedMediaType /\ nread = 0 /\ q.calls = 0
        ELSE IF Len(r.Body.data) > MaxBody
        THEN w.code = StatusRequestEntityTooLarge /\ q.calls = 0
        ELSE IF r.Body.err # EOF
        THEN w.code = StatusInternalServerError /\ q.calls = 0
        ELSE IF Len(r.Body.data) = 0
        THEN w.code = StatusBadRequest /\ q.calls = 0
        ELSE q.calls = 1 /\ q.data = r.Body.data /\ Reflects(q)

\* C4 as amended: as C4, but a read failure whose message is exactly
\* "http: request body too large" is answered 413 like a body over the
\* cap, and only a read failure with another message is answered 500.
C4_PostInOrderByMessage ==
    r.Method = MethodPost =>
        IF r.dns.ok THEN w.code = StatusBadRequest /\ nread = 0 /\ q.calls = 0
        ELSE IF r.ContentType # mime
        THEN w.code = StatusUnsupportedMediaType /\ nread = 0 /\ q.calls = 0
        ELSE IF Len(r.Body.data) > MaxBody \/ r.Body.err = ErrBodyTooLarge
        THEN w.code = StatusRequestEntityTooLarge /\ q.calls = 0 /\ nread = 1
        ELSE IF r.Body.err # EOF
        THEN w.code = StatusInternalServerError /\ q.calls = 0 /\ nread = 1
        ELSE IF Len(r.Body.data) = 0
        THEN w.code = StatusBadRequest /\ q.calls = 0 /\ nread = 1
        ELSE q.calls = 1 /\ q.data = r.Body.data /\ Reflects(q) /\ nread = 1

\* A POST request with a misplaced 'dns' parameter and a wrong Content-Type,
\* answered by the first check.
C4_Witness ==
    /\ r.Method = MethodPost
    /\ r.dns.ok
    /\ r.ContentType # mime
    /\ w.code = StatusBadRequest

\* C5: for a request that passed validation and a backend call that
\* returned (bytes, status, err): on an error the response status is the
\* returned status and the body is its reason phrase and a newline, not
\* the error text; on success the status is 200 and the body is the bytes.
C5_BackendOutcome ==
    q.calls = 1 /\ q.returned =>
        IF q.err # ""
        THEN /\ w.code = q.status
             /\ w.text = StatusText(q.status) \o "\n"
             /\ w.text # q.err \o "\n"
             /\ w.bytes = <<>>
        ELSE /\ w.code = StatusOK
             /\ w.bytes = q.rdata
             /\ w.text = ""

\* A backend failure with a status of its own, answered with that status.
C5_Witness ==
    /\ q.calls = 1
    /\ q.returned
    /\ q.err # ""
    /\ q.status = StatusServiceUnavailable
    /\ w.code = StatusServiceUnavailable
    /\ w.text = "Service Unavailable\n"

\* The handler is bound to the resolver proxy.
OverProxy == handler.bound /\ handler.DB.kind = "proxy"

\* C6 as stated: ProxyBackend.Query returns one of four outcomes: input
\* does not unpack (nil, 400, error) without an exchange; exchange error
\* (nil, 500, error) without packing; reply does not pack (nil, 500,
\* error); otherwise (reply bytes, 200, nil).  So the status is 200 iff
\* the error is nil iff the bytes are not nil.
C6_FourOutcomes ==
    OverProxy /\ q.calls = 1 =>
        /\ q.returned
        /\ ~world.unpack =>
              /\ q.rdata = <<>> /\ q.status = StatusBadRequest /\ q.err # ""
              /\ q.exchanged = <<>> /\ q.packs = 0
        /\ world.unpack /\ world.exchange = "error" =>
              /\ q.rdata = <<>> /\ q.status = StatusInternalServerError /\ q.err # ""
              /\ q.packs = 0
        /\ world.unpack /\ world.exchange = "broken" =>
              q.rdata = <<>> /\ q.status = StatusInternalServerError /\ q.err # ""
        /\ world.unpack /\ world.exchange = "answer" =>
              q.rdata = PackedReply /\ q.status = StatusOK /\ q.err = ""
        /\ (q.status = StatusOK) = (q.err = "")
        /\ (q.err = "") = (q.rdata # <<>>)

\* C7 as stated: the server list of every proxy that NewProxy returns is
\* not empty.
C7_ServersNotEmpty == pb.set => Len(pb.Servers) > 0

\* C8 as stated: a Query call whose input unpacks invokes Exchange exactly
\* once, with the address of the first server joined with the port.
C8_OneExchange ==
    OverProxy /\ q.calls = 1 /\ world.unpack =>
        /\ Len(q.exchanged) = 1
        /\ Len(handler.DB.Servers) > 0
        /\ q.exchanged[1] = JoinHostPort(handler.DB.Servers[1], handler.DB.Port)

\* A POST request without 'dns' parameter and with the right Content-Type.
PostOfBody == r.Method = MethodPost /\ ~r.dns.ok /\ r.ContentType = mime

\* C9: such a request with a body of 1 to 8192 bytes is never answered 413
\* and its body goes to the backend in full; with a body of 8193 bytes or
\* more it is answered 413 and the backend is not called.
C9_BodyCap ==
    PostOfBody =>
        /\ r.Body.err = EOF /\ Len(r.Body.data) \in 1..MaxBody =>
              /\ w.code # StatusRequestEntityTooLarge
              /\ q.calls = 1
              /\ q.data = r.Body.data
        /\ Len(r.Body.data) >= MaxBody + 1 =>
              w.code = StatusRequestEntityTooLarge /\ q.calls = 0

\* A body of exactly 8192 bytes that reached the backend.
C9_Witness ==
    /\ PostOfBody
    /\ r.Body.err = EOF
    /\ Len(r.Body.data) = MaxBody
    /\ q.calls = 1
    /\ Len(q.data) = MaxBody

\* Two outcomes hand the same bytes to the backend and give the same
\* response status and body.
SameOutcome(o, rw, c, panic) ==
    /\ o.q.calls = c.calls
    /\ o.q.data = c.data
    /\ o.w.code = rw.code
    /\ o.w.text = rw.text
    /\ o.w.bytes = rw.bytes
    /\ o.panic = panic

\* C10: for a query Q that reached the backend by POST, the GET request
\* with the unpadded base64url text of Q hands the same bytes to the
\* backend and, the collaborators behaving alike, gives the same status
\* and body; and so does the POST of Q for a GET that carried the text
\* of Q.
C10_RoundTrip ==
    /\ PostOfBody /\ q.calls = 1 =>
          SameOutcome(GetRequestHandle(
                          Request(MethodGet, Param(<<EncodeToString(r.Body.data)>>),
                                  "", NoBody),
                          handler.DB, world),
                      w, q, panicked)
    /\ r.Method = MethodGet /\ q.calls = 1
          /\ EncodeToString(q.data) = r.dns.values[1] =>
          SameOutcome(PostRequestHandle(
                          Request(MethodPost, NoParam, mime, Stream(q.data, EOF)),
                          handler.DB, world),
                      w, q, panicked)

\* The www.example.com query of the tests sent by GET and answered.
C10_Witness ==
    /\ r.Method = MethodGet
    /\ r.dns = Param(<<WwwExampleComText>>)
    /\ q.calls = 1
    /\ q.data = WwwExampleCom
    /\ w.code = StatusOK

\* C11: a request whose method is neither GET nor POST is answered 405
\* with the body "Method Not Allowed" and a newline; no validator runs (the
\* error is the dispatcher's own), the body is not read and the backend is
\* not called.
C11_OtherMethod ==
    ServedAny /\ r.Method \notin {MethodGet, MethodPost} =>
        /\ w.code = StatusMethodNotAllowed
        /\ w.text = "Method Not Allowed\n"
        /\ w.bytes = <<>>
        /\ w.writes = <<"error">>
        /\ herr = "HandleRequest: only GET and POST methods are supported"
        /\ nread = 0
        /\ q.calls = 0

\* A PUT request that carries a valid 'dns' parameter and a valid body,
\* answered 405.
C11_Witness ==
    /\ r.Method = "PUT"
    /\ r.dns = Param(<<WwwExampleComText>>)
    /\ r.ContentType = mime
    /\ r.Body.data = WwwExampleCom
    /\ w.code = StatusMethodNotAllowed
    /\ q.calls = 0

\* The request is one that validation rejects: an unsupported method; for
\* GET a missing, repeated or empty 'dns' parameter or one that fails to
\* decode; for POST a 'dns' parameter, a wrong Content-Type, a body over the
\* cap, a body read failure or an empty body.
RejectedByValidation ==
    IF r.Method = MethodGet
    THEN \/ ~r.dns.ok
         \/ Len(r.dns.values) # 1
         \/ Len(r.dns.values[1]) = 0
         \/ DecodeString(r.dns.values[1]).err # ""
    ELSE IF r.Method = MethodPost
    THEN \/ r.dns.ok
         \/ r.ContentType # mime
         \/ Len(r.Body.data) > MaxBody
         \/ r.Body.err # EOF
         \/ Len(r.Body.data) = 0
    ELSE TRUE

\* C12: for one request the backend's Query is invoked at most once, not at
\* all when validation rejects the request, and not a second time after a
\* backend failure.
C12_AtMostOneQuery ==
    ServedAny =>
        /\ q.calls <= 1
        /\ RejectedByValidation => q.calls = 0
        /\ q.err # "" => q.calls = 1

\* A request that passed validation and whose single backend call failed.
C12_Witness ==
    /\ ServedAny
    /\ ~RejectedByValidation
    /\ q.calls = 1
    /\ q.returned
    /\ q.err # ""
    /\ w.code = q.status

\* C13 as stated: every byte string handed to the backend's Query is not
\* empty: the decoded value of an accepted 'dns' parameter has at least one
\* byte, and a body handed over has 1 to 8192 bytes.
C13_NonEmptyQuery ==
    q.calls = 1 =>
        /\ r.Method = MethodGet => Len(q.data) >= 1
        /\ r.Method = MethodPost => Len(q.data) \in 1..MaxBody

====
